---- MODULE Spec2Model ----
(***************************************************************************)
(* Graph2Tree (graph4nlp): the tree-accuracy equality of runner_jobs.py    *)
(* (is_all_same / get_split_comma), the OOV dictionary of                  *)
(* Jobs.prepare_ext_vocab, and the decoding protocol of StdRNNDecoder      *)
(* (construction checks, coverage, copy mixing, teacher forcing).          *)
(*                                                                         *)
(* Three state machines share the module; each specification moves only    *)
(* its own variables:                                                      *)
(*   SpecSame   is_all_same(c1, c2, form_manager) on bounded inputs        *)
(*   SpecVocab  repeated calls of Jobs.prepare_ext_vocab                   *)
(*   SpecDec    StdRNNDecoder.__init__ followed by _run_forward_pass       *)
(***************************************************************************)
EXTENDS Integers, Sequences, FiniteSets, TLC

VARIABLES
    \* ---- is_all_same ----
    c1,          \* candidate index sequence
    c2,          \* reference index sequence
    same_pc,     \* "c1" (input being read) | "ready" | "returned"
    same_ret,    \* the value is_all_same returned ("none" before the call)
    \* ---- Jobs.prepare_ext_vocab ----
    src_vocab,        \* self.src_vocab, the vocabulary handed to every call
    oov_dict,         \* the dictionary of the current call / last returned
    oov_shared,       \* TRUE iff oov_dict is the very object src_vocab
    node_attributes,  \* nodes of the batch graph read so far
    token_matrix,     \* ids collected for node_features['token_id_oov']
    prev_oov_dict,    \* the dictionary returned by the call before
    vocab_pc,         \* "idle" | "loop" | "returned"
    \* ---- StdRNNDecoder ----
    cfg,                       \* constructor arguments and call arguments
    dec_pc,                    \* "new" | "constructed" | "loop" | "done" | "error"
    dec_err,                   \* the exception raised ("none" if none)
    built,                     \* the components __init__ has built
    target_len,                \* line 252-254
    dec_i,                     \* loop index i of line 267: steps completed
    decoder_input,             \* token fed to the next step, per batch element
    embed,                     \* line 270: the inputs embedded so far, in order
    outputs,                   \* line 336: one distribution per step
    enc_attn_weights_average,  \* line 304: averaged attention scores per step
    coverage_vectors,          \* line 305: coverage vector given to each step
    score_results,             \* line 276, value of the last step
    prob_ptr,                  \* line 325, value of the last step
    gen_output,                \* line 327, value of the last step
    draws,                     \* random.random() of each step (-1: none drawn)
    \* ---- StdRNNDecoder._extract_params ----
    graph_list,        \* the argument: one node_attributes list per graph
    attention_type,    \* self.attention_type of the decoder called
    params,            \* the dictionary returned (<<>> before the return)
    extract_pc,        \* "read" | "returned" | "error"
    extract_err,       \* the exception raised ("none" if none)
    \* ---- compute_tree_accuracy / compute_accuracy ----
    candidate_list,    \* argument candidate_list_
    reference_list,    \* argument reference_list_
    acc_pc,            \* "read" | "returned" | "error"
    acc_ret,           \* the value returned c/float(len_min), as <<c, len_min>>
    acc_err,           \* the exception raised ("none" if none)
    \* ---- CIDEr.calculate_scores ----
    ground_truth,      \* argument: list of strings
    predict,           \* argument: list of strings
    scorer_calls,      \* the (refs, hyps) of every self.scorer.compute_score call
    cider_pc,          \* "read" | "returned" | "error"
    cider_err,         \* the exception raised ("none" if none)
    \* ---- Jobs.eval ----
    eval_use_copy,        \* self.use_copy
    eval_oov_dicts,       \* the oov_dict built in each iteration, in order
    eval_reference_list,  \* reference_list
    eval_candidate_list,  \* candidate_list
    eval_vocab,           \* eval_vocab (NoVocab while unassigned)
    scored_with,          \* the form_manager each pair was scored with
    test_acc,             \* the accuracy returned, as <<c, len_min>>
    eval_pc,              \* "loop" | "returned" | "error"
    eval_err,             \* the exception raised ("none" if none)
    \* ---- Jobs.train / Jobs.train_epoch ----
    max_epochs,        \* self.opt.max_epochs
    num_batch,         \* len(self.train_data_loader)
    train_use_copy,    \* self.use_copy
    test_empty,        \* TRUE iff the test loader yields no example
    epoch,             \* loop variable of line 401 (0 before the loop)
    step,              \* batches of this pass whose iteration is complete
    train_pc,          \* the statement to run next, or "done" | "error"
    ops,               \* what was done for the current batch, in order
    handled,           \* ops of every batch completed in this pass, in order
    passes,            \* train_epoch calls that returned
    train_err          \* the exception raised ("none" if none)

sameVars == <<c1, c2, same_pc, same_ret>>

vocabVars == <<src_vocab, oov_dict, oov_shared, node_attributes,
               token_matrix, prev_oov_dict, vocab_pc>>

decVars == <<cfg, dec_pc, dec_err, built, target_len, dec_i, decoder_input, embed,
             outputs, enc_attn_weights_average, coverage_vectors,
             score_results, prob_ptr, gen_output, draws>>

extractVars == <<graph_list, attention_type, params, extract_pc, extract_err>>

accVars == <<candidate_list, reference_list, acc_pc, acc_ret, acc_err>>

ciderVars == <<ground_truth, predict, scorer_calls, cider_pc, cider_err>>

evalVars == <<eval_use_copy, eval_oov_dicts, eval_reference_list,
              eval_candidate_list, eval_vocab, scored_with, test_acc,
              eval_pc, eval_err>>

trainVars == <<max_epochs, num_batch, train_use_copy, test_empty, epoch, step,
               train_pc, ops, handled, passes, train_err>>

vars == <<sameVars, vocabVars, decVars, extractVars, accVars, ciderVars,
          evalVars, trainVars>>

\* the variables each specification leaves alone
notSameVars == <<vocabVars, decVars, extractVars, accVars, ciderVars, evalVars, trainVars>>
notVocabVars == <<sameVars, decVars, extractVars, accVars, ciderVars, evalVars, trainVars>>
notDecVars == <<sameVars, vocabVars, extractVars, accVars, ciderVars, evalVars, trainVars>>
notExtractVars == <<sameVars, vocabVars, decVars, accVars, ciderVars, evalVars, trainVars>>
notAccVars == <<sameVars, vocabVars, decVars, extractVars, ciderVars, evalVars, trainVars>>
notCiderVars == <<sameVars, vocabVars, decVars, extractVars, accVars, evalVars, trainVars>>
notEvalVars == <<sameVars, vocabVars, decVars, extractVars, accVars,
                 ciderVars, trainVars>>
notTrainVars == <<sameVars, vocabVars, decVars, extractVars, accVars,
                  ciderVars, evalVars>>

(***************************************************************************)
(* Bounds of the model.                                                    *)
(***************************************************************************)
\* longest index sequence handed to is_all_same
MaxLen == 4
\* longest sequences in the family of unrelated (c1, c2) pairs
MaxShort == 3
\* most parenthesised groups in a sequence of the family of groups
MaxGroups == 3
\* most nodes in one batch graph
MaxNodes == 3
\* longest candidate list and reference list handed to compute_tree_accuracy
MaxPairs == 2
\* longest ground_truth list and predict list handed to calculate_scores
MaxLines == 2
\* most examples of the test set Jobs.eval goes through
MaxExamples == 2
\* largest max_epochs and most batches of the training loader
MaxEpochs == 5
MaxBatches == 2
\* most graphs in the list handed to _extract_params
MaxGraphs == 2
\* most nodes of one of these graphs
MaxNodeNum == 2
\* largest max_decoder_step a decoder is built with
MaxDecoderStep == 3
\* longest target sequence (tgt_seq.shape[1])
MaxTgtLen == 2

\* all sequences over S of length at most n
RECURSIVE SeqsUpTo(_, _)
SeqsUpTo(S, n) ==
    IF n = 0 THEN {<<>>}
    ELSE LET prev == SeqsUpTo(S, n - 1)
         IN  prev \cup {Append(s, x) : s \in {t \in prev : Len(t) = n - 1}, x \in S}

SameIdle ==
    /\ c1 = <<>>
    /\ c2 = <<>>
    /\ same_pc = "c1"
    /\ same_ret = "none"

(***************************************************************************)
(* The vocabulary (form_manager) used for scoring: index -> symbol.        *)
(* Every symbol is one whitespace-free token, so " ".join(...) followed by *)
(* replace(",", " , ") and split() yields the symbols themselves.          *)
(***************************************************************************)
VocabIdx == 0 .. 4

idx2symbol == [x \in VocabIdx |->
                 CASE x = 0 -> "("
                   [] x = 1 -> ")"
                   [] x = 2 -> ","
                   [] x = 3 -> "a"
                   [] OTHER -> "b"]

get_idx_symbol(form_manager, x) == form_manager[x]

\* number of occurrences of tok in list (list.count)
count(list, tok) == Cardinality({k \in DOMAIN list : list[k] = tok})

\* lines 522-529: every "," with as many "(" as ")" before it and after it
\* is overwritten by the reference character "$"
MarkTopLevel(input_list) ==
    [index \in DOMAIN input_list |->
        IF /\ input_list[index] = ","
           /\ count(SubSeq(input_list, 1, index - 1), "(")
                = count(SubSeq(input_list, 1, index - 1), ")")
           /\ count(SubSeq(input_list, index + 1, Len(input_list)), "(")
                = count(SubSeq(input_list, index + 1, Len(input_list)), ")")
        THEN "$" ELSE input_list[index]]

\* line 530: " ".join(input_list).split('$'); a piece is kept as its token
\* sequence, which is the stripped string of line 533 (tokens hold no
\* blank and no "$")
RECURSIVE split_ref(_, _)
split_ref(list, cur) ==
    IF list = <<>> THEN <<cur>>
    ELSE IF Head(list) = "$"
         THEN <<cur>> \o split_ref(Tail(list), <<>>)
         ELSE split_ref(Tail(list), Append(cur, Head(list)))

\* the pieces kept in their order (a list instead of the set of line 531)
get_split_comma_ordered(input_str) ==
    split_ref(MarkTopLevel(input_str), <<>>)

\* lines 518-534: the result is a set
get_split_comma(input_str) ==
    LET new_str == split_ref(MarkTopLevel(input_str), <<>>)
    IN  {new_str[k] : k \in DOMAIN new_str}

\* lines 548-549: d = " ".join([form_manager.get_idx_symbol(x) for x in c])
symbol_string(c, form_manager) ==
    [k \in DOMAIN c |-> get_idx_symbol(form_manager, c[k])]

\* lines 537-556
is_all_same(a, b, form_manager) ==
    LET all_same == IF Len(a) = Len(b)
                    THEN \A j \in DOMAIN a : a[j] = b[j]
                    ELSE TRUE
    IN  IF Len(a) = Len(b) /\ all_same
        THEN TRUE
        ELSE get_split_comma(symbol_string(a, form_manager))
               = get_split_comma(symbol_string(b, form_manager))

(***************************************************************************)
(* The vocabulary object (tree_utils.Vocab), kept as its idx2symbol list:  *)
(* the symbol at position k has index k - 1 and vocab_size is the length.  *)
(* get_symbol_idx falls back to the unknown token's index; add_symbol      *)
(* gives a new symbol the index vocab_size.                                *)
(***************************************************************************)
unk_token == "<U>"

BaseVocab == <<unk_token, "a">>

NoVocab == <<>>

Symbols(v) == {v[k] : k \in DOMAIN v}

symbol2idx(v, s) == (CHOOSE k \in DOMAIN v : v[k] = s) - 1

get_symbol_idx(v, s) ==
    IF s \in Symbols(v)
    THEN symbol2idx(v, s)
    ELSE symbol2idx(v, unk_token)

add_symbol(v, s) ==
    IF s \in Symbols(v) THEN v ELSE Append(v, s)

\* node attribute dictionaries: a token and a type ("none": no 'type' key)
NodeTokens == {unk_token, "a", "x", "y"}
NodeTypes == {"none", "0", "1"}
Nodes == [token : NodeTokens, type : NodeTypes]

\* `oov_dict = src_vocab`: the same object under a second name
alias_copy(v) == [obj |-> v, shared |-> TRUE]

\* line 349: copy.deepcopy(src_vocab) is a new object with equal content
deepcopy(v) == [obj |-> v, shared |-> FALSE]

\* lines 353-354 without the test of the node type
ext_vocab_add_any_type(oov, n) ==
    IF get_symbol_idx(oov, n.token) = get_symbol_idx(oov, unk_token)
    THEN add_symbol(oov, n.token)
    ELSE oov

\* lines 352-354: the dictionary after the node's token was looked at
ext_vocab_add(oov, n) ==
    IF /\ (n.type = "none" \/ n.type = "0")
       /\ get_symbol_idx(oov, n.token) = get_symbol_idx(oov, unk_token)
    THEN add_symbol(oov, n.token)
    ELSE oov

VocabIdle ==
    /\ src_vocab = BaseVocab
    /\ oov_dict = NoVocab
    /\ oov_shared = FALSE
    /\ node_attributes = <<>>
    /\ token_matrix = <<>>
    /\ prev_oov_dict = NoVocab
    /\ vocab_pc = "idle"

\* line 349-350: a call begins (the first, or the next batch's)
PrepareBegin ==
    /\ vocab_pc \in {"idle", "returned"}
    /\ oov_dict' = deepcopy(src_vocab).obj
    /\ oov_shared' = deepcopy(src_vocab).shared
    /\ prev_oov_dict' = oov_dict
    /\ node_attributes' = <<>>
    /\ token_matrix' = <<>>
    /\ vocab_pc' = "loop"
    /\ UNCHANGED src_vocab

\* lines 351-356: one iteration of the loop over batch_graph.node_attributes
PrepareNode ==
    /\ vocab_pc = "loop"
    /\ Len(node_attributes) < MaxNodes
    /\ \E n \in Nodes :
        LET oov == ext_vocab_add(oov_dict, n)
        IN  /\ oov_dict' = oov
            /\ src_vocab' = IF oov_shared THEN oov ELSE src_vocab
            /\ token_matrix' = Append(token_matrix, get_symbol_idx(oov, n.token))
            /\ node_attributes' = Append(node_attributes, n)
    /\ UNCHANGED <<oov_shared, prev_oov_dict, vocab_pc>>

\* lines 357-358: the loop is over, token_id_oov is stored, oov_dict returned
PrepareReturn ==
    /\ vocab_pc = "loop"
    /\ vocab_pc' = "returned"
    /\ UNCHANGED <<src_vocab, oov_dict, oov_shared, node_attributes,
                   token_matrix, prev_oov_dict>>

(***************************************************************************)
(* SpecSame: the inputs are read, then is_all_same is called once.         *)
(* Two input families: c2 a rearrangement of the tokens of c1 (every pair  *)
(* that is identical or differs by an order of segments is one), and       *)
(* unrelated pairs of at most MaxShort indices each.                       *)
(***************************************************************************)
ReadC1 ==
    /\ same_pc = "c1"
    /\ Len(c1) < MaxLen
    /\ \E x \in VocabIdx : c1' = Append(c1, x)
    /\ UNCHANGED <<c2, same_pc, same_ret>>

ReadC2Rearranged ==
    /\ same_pc = "c1"
    /\ \E p \in Permutations(DOMAIN c1) : c2' = [k \in DOMAIN c1 |-> c1[p[k]]]
    /\ same_pc' = "ready"
    /\ UNCHANGED <<c1, same_ret>>

ReadC2Short ==
    /\ same_pc = "c1"
    /\ Len(c1) <= MaxShort
    /\ \E s \in SeqsUpTo(VocabIdx, MaxShort) : c2' = s
    /\ same_pc' = "ready"
    /\ UNCHANGED <<c1, same_ret>>

\* the indices of "( x , y )"
Group(g) == <<0, g[1], 2, g[2], 1>>

\* the groups of gs separated by ","
RECURSIVE JoinGroups(_)
JoinGroups(gs) ==
    IF gs = <<>> THEN <<>>
    ELSE IF Len(gs) = 1 THEN Group(gs[1])
    ELSE Group(gs[1]) \o <<2>> \o JoinGroups(Tail(gs))

\* the two arguments of a group: each "a" or "b"
ArgPairs == {3, 4} \X {3, 4}

\* third family: c1 is a list of groups "( x , y )" and c2 is c1 with the
\* two arguments of one group exchanged
ReadGroups ==
    /\ same_pc = "c1"
    /\ c1 = <<>>
    /\ \E n \in 1 .. MaxGroups : \E gs \in [1 .. n -> ArgPairs] : \E k \in 1 .. n :
        /\ c1' = JoinGroups(gs)
        /\ c2' = JoinGroups([gs EXCEPT ![k] = <<gs[k][2], gs[k][1]>>])
    /\ same_pc' = "ready"
    /\ UNCHANGED same_ret

CallIsAllSame ==
    /\ same_pc = "ready"
    /\ same_ret' = is_all_same(c1, c2, idx2symbol)
    /\ same_pc' = "returned"
    /\ UNCHANGED <<c1, c2>>

(***************************************************************************)
(* StdRNNDecoder.  Probabilities are fixed-point numbers: One stands for   *)
(* 1.0, so a softmax output and an attention score vector sum to One and   *)
(* a product of two probabilities is in units of One * One.  What the      *)
(* network layers compute (self._decode_step, self.out_project, self.ptr)  *)
(* is drawn at every step from small sets of values.                       *)
(***************************************************************************)
One == 8

\* self.vocab.SOS
SOS == 0

\* ids of the target vocabulary: 0 .. vocab_size - 1 (line 148-149)
VocabIds == {0, 1}
vocab_size == Cardinality(VocabIds)

\* attended source positions (dimension N of graph_node_embedding)
SrcPos == {1, 2}

\* ids src_seq may hold; vocab_size and above come from an extended
\* dictionary
SrcIds == {0, 1, 2}

\* values of torch.softmax(decoder_output) for one batch element (line 327,
\* 335)
GenChoices == {(0 :> 6 @@ 1 :> 2), (0 :> 2 @@ 1 :> 6)}

\* attention scores of one attention module for one batch element
AttnScoreChoices == {<<2, 6>>, <<8, 0>>}

\* values of torch.sigmoid(self.ptr(...)) (line 325)
PtrChoices == {2, 6}

\* values of random.random() (line 339) and of teacher_forcing_rate
DrawChoices == {0, 6}
RateChoices == {0, 4, One}

Batch(c) == 1 .. c.batch_size

\* tgt_seq = None
NoTgt == [given |-> FALSE, cols |-> <<>>]

\* ---------------------------------------------------------------- __init__

\* lines 68-191 without the check of lines 155-157
init_error_no_coverage_check(c) ==
    IF c.rnn_type \notin {"LSTM", "GRU"} THEN "NotImplementedError"
    ELSE IF c.use_attention /\ c.attention_type = "sep_diff_encoder_type"
            /\ c.rnn_emb = "none"
         THEN "AssertionError"
    ELSE IF c.use_attention /\ c.attention_type = "sep_diff_encoder_type"
            /\ c.fuse_strategy # "concatenate" /\ c.rnn_emb = "differs"
         THEN "ValueError"
    ELSE IF c.use_attention /\ c.attention_type = "sep_diff_node_type"
            /\ c.node_type_num < 1
         THEN "AssertionError"
    ELSE IF c.use_attention /\ c.attention_type = "sep_diff_node_type"
            /\ c.fuse_strategy \notin {"concatenate", "average"}
         THEN "NotImplementedError"
    ELSE IF c.use_attention
            /\ c.attention_type \notin {"uniform", "sep_diff_encoder_type",
                                        "sep_diff_node_type"}
         THEN "NotImplementedError"
    ELSE "none"

\* lines 68-191 with the rnn_type looked at only where the adapter is chosen
\* (lines 131-137), after the attention builder
init_error_rnn_checked_late(c) ==
    IF c.use_attention /\ c.attention_type = "sep_diff_encoder_type"
       /\ c.rnn_emb = "none"
    THEN "AssertionError"
    ELSE IF c.use_attention /\ c.attention_type = "sep_diff_encoder_type"
            /\ c.fuse_strategy # "concatenate" /\ c.rnn_emb = "differs"
         THEN "ValueError"
    ELSE IF c.use_attention /\ c.attention_type = "sep_diff_node_type"
            /\ c.node_type_num < 1
         THEN "AssertionError"
    ELSE IF c.use_attention /\ c.attention_type = "sep_diff_node_type"
            /\ c.fuse_strategy \notin {"concatenate", "average"}
         THEN "NotImplementedError"
    ELSE IF c.use_attention
            /\ c.attention_type \notin {"uniform", "sep_diff_encoder_type",
                                        "sep_diff_node_type"}
         THEN "NotImplementedError"
    ELSE IF c.rnn_type \notin {"LSTM", "GRU"} THEN "NotImplementedError"
    ELSE IF c.use_coverage /\ ~c.use_attention THEN "ValueError"
    ELSE "none"

\* lines 68-191: the exception the constructor raises, "none" if it returns
init_error(c) ==
    \* line 76 and 201-205: _build_rnn
    IF c.rnn_type \notin {"LSTM", "GRU"} THEN "NotImplementedError"
    \* lines 96-97
    ELSE IF c.use_attention /\ c.attention_type = "sep_diff_encoder_type"
            /\ c.rnn_emb = "none"
         THEN "AssertionError"
    \* lines 107-111
    ELSE IF c.use_attention /\ c.attention_type = "sep_diff_encoder_type"
            /\ c.fuse_strategy # "concatenate" /\ c.rnn_emb = "differs"
         THEN "ValueError"
    \* lines 112-113
    ELSE IF c.use_attention /\ c.attention_type = "sep_diff_node_type"
            /\ c.node_type_num < 1
         THEN "AssertionError"
    \* lines 120-125
    ELSE IF c.use_attention /\ c.attention_type = "sep_diff_node_type"
            /\ c.fuse_strategy \notin {"concatenate", "average"}
         THEN "NotImplementedError"
    \* lines 126-127
    ELSE IF c.use_attention
            /\ c.attention_type \notin {"uniform", "sep_diff_encoder_type",
                                        "sep_diff_node_type"}
         THEN "NotImplementedError"
    \* lines 155-157
    ELSE IF c.use_coverage /\ ~c.use_attention THEN "ValueError"
    \* lines 176-191: the pointer layer is built with or without attention
    ELSE "none"

\* lines 90-119: the attention modules the builder creates before it
\* returns or raises
attention_built(c) ==
    IF ~c.use_attention THEN {}
    ELSE IF c.attention_type = "uniform" THEN {"enc_attention"}
    ELSE IF c.attention_type = "sep_diff_encoder_type" /\ c.rnn_emb # "none"
         THEN {"enc_attention", "rnn_attention"}
    ELSE IF c.attention_type = "sep_diff_node_type" /\ c.node_type_num >= 1
         THEN {"attn_modules"}
    ELSE {}

\* lines 68-191: the components built when the constructor returns or raises
init_built(c) ==
    \* line 76: _build_rnn raises before anything is assigned
    IF c.rnn_type \notin {"LSTM", "GRU"} THEN {}
    \* lines 83-127: an exception of the attention builder
    ELSE IF c.use_attention /\ init_error(c) # "none"
         THEN {"rnn"} \cup attention_built(c)
    \* lines 155-157
    ELSE IF c.use_coverage /\ ~c.use_attention
         THEN {"rnn", "encoder_decoder_adapter", "out_project"}
    ELSE {"rnn", "encoder_decoder_adapter", "out_project"}
            \cup attention_built(c)
            \cup (IF c.use_coverage THEN {"coverage_function"} ELSE {})
            \cup (IF c.use_copy THEN {"ptr"} ELSE {})

\* ------------------------------------------------------ _run_forward_pass

\* number of attention modules _decode_step collects scores from
\* (lines 371-388)
num_attn(c) ==
    IF ~c.use_attention THEN 0
    ELSE IF c.attention_type = "uniform" THEN 1
    ELSE IF c.attention_type = "sep_diff_encoder_type" THEN 2
    ELSE c.node_type_num

RECURSIVE sum_list(_, _, _)
\* sum over the list entries of entry[b][j]
sum_list(list, b, j) ==
    IF list = <<>> THEN 0
    ELSE Head(list)[b][j] + sum_list(Tail(list), b, j)

RECURSIVE max_list(_, _, _)
\* maximum over the (non-empty) list entries of entry[b][j]
max_list(list, b, j) ==
    IF Len(list) = 1 THEN Head(list)[b][j]
    ELSE LET m == max_list(Tail(list), b, j)
         IN  IF Head(list)[b][j] >= m THEN Head(list)[b][j] ELSE m

\* a coverage value or None
NoneVec == [none |-> TRUE, vec |-> <<>>]
SomeVec(v) == [none |-> FALSE, vec |-> v]

\* the coverage vector is the newest attention score alone
get_coverage_vector_last_only(c, enc_attn_weights) ==
    SomeVec(enc_attn_weights[Len(enc_attn_weights)])

\* lines 161-168, for a strategy of 'max' or 'sum'
get_coverage_vector(c, enc_attn_weights) ==
    IF c.coverage_strategy = "max"
    THEN SomeVec([b \in Batch(c) |->
                    [j \in SrcPos |-> max_list(enc_attn_weights, b, j)]])
    ELSE SomeVec([b \in Batch(c) |->
                    [j \in SrcPos |-> sum_list(enc_attn_weights, b, j)]])

\* line 302: reduce(lambda x, y: x + y, score_results) / len(score_results)
average_scores(c, results) ==
    [b \in Batch(c) |->
        [j \in SrcPos |-> sum_list(results, b, j) \div Len(results)]]

RECURSIVE scatter_(_, _, _, _)
\* Tensor.scatter_ along the vocabulary: each position overwrites its slot
scatter_(ret, index, src, j) ==
    IF j \notin SrcPos THEN ret
    ELSE scatter_([ret EXCEPT ![index[j]] = src[j]], index, src, j + 1)

RECURSIVE scatter_add_(_, _, _, _)
\* line 332, Tensor.scatter_add_ along the vocabulary for one batch row:
\* ret[index[j]] += src[j] for every position j, in order
scatter_add_(ret, index, src, j) ==
    IF j \notin SrcPos THEN ret
    ELSE scatter_add_([ret EXCEPT ![index[j]] = @ + src[j]], index, src, j + 1)

\* lines 326-333 with the generation part left unweighted (prob_gen = 1)
copy_mix_unweighted(p_ptr, gen, ptr_output, src_row) ==
    LET ret == [v \in VocabIds |-> One * gen[v]]
    IN  scatter_add_(ret, src_row, [j \in SrcPos |-> p_ptr * ptr_output[j]], 1)

\* lines 326-333 for one batch row
copy_mix(p_ptr, gen, ptr_output, src_row) ==
    LET prob_gen == One - p_ptr
        ret == [v \in VocabIds |-> prob_gen * gen[v]]
    IN  scatter_add_(ret, src_row, [j \in SrcPos |-> p_ptr * ptr_output[j]], 1)

\* line 344: argmax(dim=-1); the first of several maxima
argmax(dist) ==
    CHOOSE v \in VocabIds :
        /\ \A w \in VocabIds : dist[w] <= dist[v]
        /\ \A w \in VocabIds : dist[w] = dist[v] => v <= w

\* line 339 with <= in place of <
teacher_forced_le(c, draw) ==
    c.tgt_seq.given /\ draw <= c.teacher_forcing_rate

\* line 339 with the comparison turned round
teacher_forced_gt(c, draw) ==
    c.tgt_seq.given /\ draw > c.teacher_forcing_rate

\* line 339: tgt_seq is not None and random.random() < teacher_forcing_rate
teacher_forced(c, draw) ==
    c.tgt_seq.given /\ draw < c.teacher_forcing_rate

\* lines 252-254 ignoring max_decoder_step when a target is given
target_length_of_tgt(c) ==
    IF c.tgt_seq.given THEN Len(c.tgt_seq.cols) ELSE c.max_decoder_step

\* lines 252-254
target_length(c) ==
    IF c.tgt_seq.given
    THEN IF Len(c.tgt_seq.cols) < c.max_decoder_step
         THEN Len(c.tgt_seq.cols) ELSE c.max_decoder_step
    ELSE c.max_decoder_step

\* the loop's exceptions when scatter_add_ accepts any index
step_error_no_range_check(c, enc) ==
    IF c.use_coverage /\ enc # <<>> /\ c.coverage_strategy \notin {"max", "sum"}
    THEN "AttributeError"
    ELSE IF c.use_attention /\ c.attention_type # "uniform"
            /\ c.fuse_strategy \notin {"average", "concatenate"}
         THEN "NotImplementedError"
    ELSE IF c.use_copy /\ ~c.use_attention THEN "RuntimeError"
    ELSE "none"

\* the exception one iteration of the loop raises, "none" if it completes
step_error(c, enc) ==
    \* lines 271-272 and 166-167: the message reads self.cover_func, which
    \* is never set
    IF c.use_coverage /\ enc # <<>> /\ c.coverage_strategy \notin {"max", "sum"}
    THEN "AttributeError"
    \* lines 291-297
    ELSE IF c.use_attention /\ c.attention_type # "uniform"
            /\ c.fuse_strategy \notin {"average", "concatenate"}
         THEN "NotImplementedError"
    \* line 322: torch.cat of an empty list
    ELSE IF c.use_copy /\ ~c.use_attention THEN "RuntimeError"
    \* line 332: an index outside 0 .. vocab_size - 1
    ELSE IF c.use_copy /\ \E b \in Batch(c) : \E j \in SrcPos :
                              c.src_seq[b][j] \notin VocabIds
         THEN "RuntimeError"
    ELSE "none"

\* ------------------------------------------------------------ the inputs

DefaultCfg ==
    [rnn_type |-> "LSTM", use_attention |-> TRUE, attention_type |-> "uniform",
     fuse_strategy |-> "average", rnn_emb |-> "equal", node_type_num |-> 1,
     use_copy |-> FALSE, use_coverage |-> FALSE, coverage_strategy |-> "sum",
     max_decoder_step |-> 1, batch_size |-> 1, tgt_seq |-> NoTgt,
     src_seq |-> <<<<0, 1>>>>, teacher_forcing_rate |-> One]

\* tgt_seq of shape [B, T], T <= n, kept as its T columns
TgtSeqs(B, n) ==
    {[given |-> TRUE, cols |-> s] : s \in SeqsUpTo([1 .. B -> VocabIds], n)}

\* every combination of the constructor's options, decoding one step
CtorFamily ==
    {[DefaultCfg EXCEPT !.rnn_type = r, !.use_attention = a[1],
                        !.use_copy = a[2], !.use_coverage = a[3],
                        !.attention_type = t, !.fuse_strategy = f,
                        !.rnn_emb = e, !.node_type_num = n,
                        !.coverage_strategy = s] :
        r \in {"LSTM", "GRU", "RNN"}, a \in BOOLEAN \X BOOLEAN \X BOOLEAN,
        t \in {"uniform", "sep_diff_encoder_type", "sep_diff_node_type", "other"},
        f \in {"average", "concatenate", "other"},
        e \in {"equal", "differs", "none"}, n \in {0, 1, 2},
        s \in {"sum", "max", "other"}}

\* coverage over several steps, one or two attention modules
CoverageFamily ==
    {[DefaultCfg EXCEPT !.use_coverage = TRUE, !.coverage_strategy = s,
                        !.attention_type = t, !.max_decoder_step = m] :
        s \in {"sum", "max", "other"},
        t \in {"uniform", "sep_diff_encoder_type"},
        m \in 0 .. MaxDecoderStep}

\* copy over several steps, every src_seq row
CopyFamily ==
    {[DefaultCfg EXCEPT !.use_copy = TRUE, !.src_seq = <<row>>,
                        !.max_decoder_step = MaxDecoderStep] :
        row \in [SrcPos -> SrcIds]}

\* teacher forcing on a batch of two, without attention
TeacherForcingFamily ==
    {[DefaultCfg EXCEPT !.use_attention = FALSE, !.batch_size = 2,
                        !.tgt_seq = t, !.teacher_forcing_rate = r,
                        !.max_decoder_step = m] :
        t \in {NoTgt} \cup TgtSeqs(2, MaxTgtLen), r \in RateChoices,
        m \in 0 .. MaxDecoderStep}

\* attention, coverage, copy and teacher forcing together
MixedFamily ==
    {[DefaultCfg EXCEPT !.use_coverage = TRUE, !.use_copy = TRUE,
                        !.src_seq = <<row>>, !.tgt_seq = t,
                        !.teacher_forcing_rate = 4,
                        !.max_decoder_step = MaxDecoderStep] :
        row \in {<<0, 1>>, <<1, 1>>},
        t \in {NoTgt, [given |-> TRUE,
                       cols |-> [k \in 1 .. MaxTgtLen |-> <<1>>]]}}

Configs ==
    CtorFamily \cup CoverageFamily \cup CopyFamily
        \cup TeacherForcingFamily \cup MixedFamily

\* ------------------------------------------------------------ the actions

DecIdle ==
    /\ dec_pc = "new"
    /\ dec_err = "none"
    /\ built = {}
    /\ target_len = 0
    /\ dec_i = 0
    /\ decoder_input = <<>>
    /\ embed = <<>>
    /\ outputs = <<>>
    /\ enc_attn_weights_average = <<>>
    /\ coverage_vectors = <<>>
    /\ score_results = <<>>
    /\ prob_ptr = <<>>
    /\ gen_output = <<>>
    /\ draws = <<>>

\* StdRNNDecoder(...): lines 60-191
Construct ==
    /\ dec_pc = "new"
    /\ dec_err' = init_error(cfg)
    /\ dec_pc' = IF init_error(cfg) = "none" THEN "constructed" ELSE "error"
    /\ built' = init_built(cfg)
    /\ UNCHANGED <<cfg, target_len, dec_i, decoder_input, embed, outputs,
                   enc_attn_weights_average, coverage_vectors, score_results,
                   prob_ptr, gen_output, draws>>

\* _run_forward_pass up to the loop: lines 252-265
ForwardBegin ==
    /\ dec_pc = "constructed"
    /\ target_len' = target_length(cfg)
    /\ decoder_input' = [b \in Batch(cfg) |-> SOS]
    /\ dec_i' = 0
    /\ dec_pc' = "loop"
    /\ UNCHANGED <<cfg, dec_err, built, embed, outputs, enc_attn_weights_average,
                   coverage_vectors, score_results, prob_ptr, gen_output,
                   draws>>

\* what the attention modules, the projection, the pointer layer and
\* random.random() may yield in one step
ScoreResults(c) ==
    IF c.use_attention
    THEN [1 .. num_attn(c) -> [Batch(c) -> AttnScoreChoices]]
    ELSE {<<>>}
PtrResults(c) ==
    IF c.use_copy THEN [Batch(c) -> PtrChoices] ELSE {prob_ptr}
DrawResults(c) ==
    IF c.tgt_seq.given THEN DrawChoices ELSE {-1}

\* one iteration of the loop: lines 267-345
DecodeStep ==
    /\ dec_pc = "loop"
    /\ dec_i < target_len
    /\ IF step_error(cfg, enc_attn_weights_average) # "none"
       THEN /\ dec_pc' = "error"
            /\ dec_err' = step_error(cfg, enc_attn_weights_average)
            /\ UNCHANGED <<cfg, built, target_len, dec_i, decoder_input,
                           embed, outputs, enc_attn_weights_average,
                           coverage_vectors, score_results, prob_ptr,
                           gen_output, draws>>
       ELSE \E scores \in ScoreResults(cfg) :
            \E gen \in [Batch(cfg) -> GenChoices] :
            \E p \in PtrResults(cfg) :
            \E draw \in DrawResults(cfg) :
              LET coverage_vec ==
                      IF cfg.use_coverage /\ enc_attn_weights_average # <<>>
                      THEN get_coverage_vector(cfg, enc_attn_weights_average)
                      ELSE NoneVec
                  dec_attn_scores ==
                      IF cfg.use_attention
                      THEN average_scores(cfg, scores)
                      ELSE <<>>
                  decoder_output ==
                      IF cfg.use_copy
                      THEN [b \in Batch(cfg) |->
                              copy_mix(p[b], gen[b], dec_attn_scores[b],
                                       cfg.src_seq[b])]
                      ELSE gen
              IN  /\ embed' = Append(embed, decoder_input)
                  /\ enc_attn_weights_average' =
                        IF cfg.use_attention
                        THEN Append(enc_attn_weights_average, dec_attn_scores)
                        ELSE enc_attn_weights_average
                  /\ coverage_vectors' =
                        IF cfg.use_attention
                        THEN Append(coverage_vectors, coverage_vec)
                        ELSE coverage_vectors
                  /\ score_results' = scores
                  /\ prob_ptr' = p
                  /\ gen_output' = IF cfg.use_copy THEN gen ELSE gen_output
                  /\ outputs' = Append(outputs, decoder_output)
                  /\ draws' = Append(draws, draw)
                  /\ decoder_input' =
                        IF teacher_forced(cfg, draw)
                        THEN cfg.tgt_seq.cols[dec_i + 1]
                        ELSE [b \in Batch(cfg) |-> argmax(decoder_output[b])]
                  /\ dec_i' = dec_i + 1
                  /\ UNCHANGED <<cfg, dec_pc, dec_err, built, target_len>>

\* lines 346-347: the loop is over; torch.cat refuses an empty list
ForwardReturn ==
    /\ dec_pc = "loop"
    /\ dec_i = target_len
    /\ dec_pc' = IF outputs = <<>> THEN "error" ELSE "done"
    /\ dec_err' = IF outputs = <<>> THEN "RuntimeError" ELSE "none"
    /\ UNCHANGED <<cfg, built, target_len, dec_i, decoder_input, embed, outputs,
                   enc_attn_weights_average, coverage_vectors, score_results,
                   prob_ptr, gen_output, draws>>

(***************************************************************************)
(* StdRNNDecoder._extract_params.  A graph is its node_attributes list; a  *)
(* node has a 'type' (0 or 1) or none.  Row j of a graph's node_emb and    *)
(* rnn_emb (one row per node) is written j, a row of zeros 0.              *)
(***************************************************************************)
GraphNodes == {[has_type |-> FALSE, type |-> 0],
               [has_type |-> TRUE, type |-> 0],
               [has_type |-> TRUE, type |-> 1]}

ExtractIdle ==
    /\ graph_list = <<>>
    /\ attention_type = "uniform"
    /\ params = <<>>
    /\ extract_pc = "read"
    /\ extract_err = "none"

\* s_g.node_features["node_emb"] (line 445), ["rnn_emb"] (line 446)
node_emb(s_g) == [j \in DOMAIN s_g |-> j]

\* lines 450-457 with dim = 0: pad_size rows of zeros below x
pad_tensor(x, pad_size) == x \o [k \in 1 .. pad_size |-> 0]

\* line 460: max([emb.shape[0] for emb in graph_node_emb])
max_node_num(gl) ==
    CHOOSE m \in {Len(gl[i]) : i \in DOMAIN gl} :
        \A i \in DOMAIN gl : Len(gl[i]) <= m

\* lines 462-467 (and 484-490 for rnn_emb)
graph_node_emb_ret(gl) ==
    [i \in DOMAIN gl |->
        IF Len(gl[i]) < max_node_num(gl)
        THEN pad_tensor(node_emb(gl[i]), max_node_num(gl) - Len(gl[i]))
        ELSE node_emb(gl[i])]

\* lines 471-478 on a mask created by torch.zeros alone
graph_node_mask_zero_fill(gl) ==
    [i \in DOMAIN gl |->
        [j \in 1 .. max_node_num(gl) |->
            IF j <= Len(gl[i]) /\ gl[i][j].has_type THEN gl[i][j].type ELSE 0]]

\* lines 471-478: a mask of -1, then the type of every node that has one
graph_node_mask(gl) ==
    [i \in DOMAIN gl |->
        [j \in 1 .. max_node_num(gl) |->
            IF j <= Len(gl[i]) /\ gl[i][j].has_type THEN gl[i][j].type ELSE -1]]

\* the inputs: a graph is added to the list
AddGraph ==
    /\ extract_pc = "read"
    /\ Len(graph_list) < MaxGraphs
    /\ graph_list' = Append(graph_list, <<>>)
    /\ UNCHANGED <<attention_type, params, extract_pc, extract_err>>

\* the inputs: a node is added to the newest graph
AddNode ==
    /\ extract_pc = "read"
    /\ graph_list # <<>>
    /\ Len(graph_list[Len(graph_list)]) < MaxNodeNum
    /\ \E n \in GraphNodes :
        graph_list' = [graph_list EXCEPT ![Len(graph_list)] = Append(@, n)]
    /\ UNCHANGED <<attention_type, params, extract_pc, extract_err>>

\* lines 434-499
ExtractParams ==
    /\ extract_pc = "read"
    /\ \E t \in {"uniform", "sep_diff_encoder_type", "sep_diff_node_type"} :
        /\ attention_type' = t
        /\ IF graph_list = <<>>
           \* line 460: max() of an empty list
           THEN /\ extract_pc' = "error"
                /\ extract_err' = "ValueError"
                /\ UNCHANGED params
           ELSE /\ params' =
                    [graph_node_embedding |-> graph_node_emb_ret(graph_list),
                     graph_node_mask |-> graph_node_mask(graph_list),
                     rnn_node_embedding |->
                        IF t = "sep_diff_encoder_type"
                        THEN graph_node_emb_ret(graph_list)
                        ELSE <<>>]
                /\ extract_pc' = "returned"
                /\ UNCHANGED extract_err
    /\ UNCHANGED graph_list

(***************************************************************************)
(* compute_tree_accuracy and compute_accuracy.  The quotient               *)
(* c/float(len_min) is kept as the pair <<c, len_min>>.                    *)
(***************************************************************************)
\* the index sequences the lists hold: 'a', 'b', 'a , b', 'b , a'
AccSeqs == {<<3>>, <<4>>, <<3, 2, 4>>, <<4, 2, 3>>}

AccIdle ==
    /\ candidate_list = <<>>
    /\ reference_list = <<>>
    /\ acc_pc = "read"
    /\ acc_ret = <<>>
    /\ acc_err = "none"

\* lines 563 and 559: min(len(candidate_list), len(reference_list))
len_min(cands, refs) == IF Len(cands) <= Len(refs) THEN Len(cands) ELSE Len(refs)

\* lines 564-569: the value of c after the first n iterations of the loop
RECURSIVE count_same(_, _, _, _)
count_same(cands, refs, form_manager, n) ==
    IF n = 0 THEN 0
    ELSE count_same(cands, refs, form_manager, n - 1)
           + (IF is_all_same(cands[n], refs[n], form_manager) THEN 1 ELSE 0)

\* lines 558-571: the exception raised ("none" if none) and the quotient
compute_accuracy(cands, refs, form_manager) ==
    IF len_min(cands, refs) = 0
    \* line 571: c/float(0)
    THEN [err |-> "ZeroDivisionError", ret |-> <<>>]
    ELSE [err |-> "none",
          ret |-> <<count_same(cands, refs, form_manager, len_min(cands, refs)),
                    len_min(cands, refs)>>]

\* lines 574-581: both lists are copied element by element, then scored
compute_tree_accuracy(cands_, refs_, form_manager) ==
    LET cands == [i \in 1 .. Len(cands_) |-> cands_[i]]
        refs == [i \in 1 .. Len(refs_) |-> refs_[i]]
    IN  compute_accuracy(cands, refs, form_manager)

ReadCandidate ==
    /\ acc_pc = "read"
    /\ Len(candidate_list) < MaxPairs
    /\ \E c \in AccSeqs : candidate_list' = Append(candidate_list, c)
    /\ UNCHANGED <<reference_list, acc_pc, acc_ret, acc_err>>

ReadReference ==
    /\ acc_pc = "read"
    /\ Len(reference_list) < MaxPairs
    /\ \E r \in AccSeqs : reference_list' = Append(reference_list, r)
    /\ UNCHANGED <<candidate_list, acc_pc, acc_ret, acc_err>>

\* compute_tree_accuracy(candidate_list, reference_list, form_manager)
ComputeTreeAccuracy ==
    /\ acc_pc = "read"
    /\ LET r == compute_tree_accuracy(candidate_list, reference_list, idx2symbol)
       IN  /\ acc_err' = r.err
           /\ acc_ret' = r.ret
           /\ acc_pc' = IF r.err = "none" THEN "returned" ELSE "error"
    /\ UNCHANGED <<candidate_list, reference_list>>

(***************************************************************************)
(* CIDEr.calculate_scores.  A string is the sequence of its characters;    *)
(* a dictionary keyed by 0 .. n - 1 is the sequence of its values.         *)
(***************************************************************************)
\* the strings the lists hold
CiderLines == {<<>>, <<" ">>, <<"a">>, <<" ", "a">>, <<"a", " ">>,
               <<" ", "a", " ", "b", " ">>}

CiderIdle ==
    /\ ground_truth = <<>>
    /\ predict = <<>>
    /\ scorer_calls = <<>>
    /\ cider_pc = "read"
    /\ cider_err = "none"

\* str.lstrip: the leading blanks are dropped
RECURSIVE lstrip(_)
lstrip(str) ==
    IF str # <<>> /\ Head(str) = " " THEN lstrip(Tail(str)) ELSE str

\* str.rstrip: the trailing blanks are dropped
RECURSIVE rstrip(_)
rstrip(str) ==
    IF str # <<>> /\ str[Len(str)] = " "
    THEN rstrip(SubSeq(str, 1, Len(str) - 1))
    ELSE str

\* the leading blanks alone are dropped
strip_leading_only(str) == lstrip(str)

\* str.strip (lines 37 and 40)
strip(str) == rstrip(lstrip(str))

\* line 37 and 39: zip(ground_truth) yields the 1-tuple (ground_truth[i],)
\* for every i; each is mapped to the list of its stripped strings
refs_of(gts) == [idx \in DOMAIN gts |-> <<strip(gts[idx])>>]

\* line 40
hyps_of(preds) == [idx \in DOMAIN preds |-> <<strip(preds[idx])>>]

ReadGroundTruth ==
    /\ cider_pc = "read"
    /\ Len(ground_truth) < MaxLines
    /\ \E l \in CiderLines : ground_truth' = Append(ground_truth, l)
    /\ UNCHANGED <<predict, scorer_calls, cider_pc, cider_err>>

ReadPredict ==
    /\ cider_pc = "read"
    /\ Len(predict) < MaxLines
    /\ \E l \in CiderLines : predict' = Append(predict, l)
    /\ UNCHANGED <<ground_truth, scorer_calls, cider_pc, cider_err>>

\* lines 21-43
CalculateScores ==
    /\ cider_pc = "read"
    /\ LET refs == refs_of(ground_truth)
           hyps == hyps_of(predict)
       IN  IF Len(refs) # Len(hyps)
           \* line 41
           THEN /\ cider_pc' = "error"
                /\ cider_err' = "AssertionError"
                /\ UNCHANGED scorer_calls
           \* lines 42-43
           ELSE /\ scorer_calls' = Append(scorer_calls, [refs |-> refs, hyps |-> hyps])
                /\ cider_pc' = "returned"
                /\ UNCHANGED cider_err
    /\ UNCHANGED <<ground_truth, predict>>

(***************************************************************************)
(* Jobs.eval.  The test loader yields one example per iteration (batch     *)
(* size 1, asserted at lines 450 and 455).  self.src_vocab and             *)
(* self.tgt_vocab are BaseVocab; it holds no parenthesis, so the           *)
(* balancing of lines 475-485 leaves every candidate as translate made it. *)
(***************************************************************************)
\* the graphs of the test examples, as their node_attributes
EvalGraphs ==
    LET n(tok) == [token |-> tok, type |-> "none"]
    IN  {<<>>, <<n("a")>>, <<n("x")>>, <<n("y")>>,
         <<n("x"), n("y")>>, <<n("y"), n("x")>>}

\* the original target strings of the test examples, split into tokens
EvalTrees == {<<"a">>, <<"x">>, <<"y">>}

EvalIdle ==
    /\ eval_use_copy = FALSE
    /\ eval_oov_dicts = <<>>
    /\ eval_reference_list = <<>>
    /\ eval_candidate_list = <<>>
    /\ eval_vocab = NoVocab
    /\ scored_with = <<>>
    /\ test_acc = <<>>
    /\ eval_pc = "loop"
    /\ eval_err = "none"

\* lines 349-358: the dictionary returned for the nodes of one graph
RECURSIVE prepare_ext_vocab(_, _)
prepare_ext_vocab(nodes, oov) ==
    IF nodes = <<>> THEN oov
    ELSE prepare_ext_vocab(Tail(nodes), ext_vocab_add(oov, Head(nodes)))

\* Vocab.get_symbol_idx_for_list
get_symbol_idx_for_list(v, tokens) ==
    [k \in DOMAIN tokens |-> get_symbol_idx(v, tokens[k])]

\* the ids a dictionary of at most four symbols can hold
EvalIds == 0 .. 3

\* Vocab.get_idx_symbol of a vocabulary: an unknown index gives unk_token
as_form_manager(v) ==
    [x \in EvalIds |-> IF x < Len(v) THEN v[x + 1] ELSE unk_token]

\* line 505-506: one form_manager, eval_vocab, scores every pair
score_forms(cands, refs, vocab) ==
    [i \in 1 .. len_min(cands, refs) |-> vocab]

\* lines 436-502: one iteration of the loop over the test loader
EvalExample ==
    /\ eval_pc = "loop"
    /\ Len(eval_oov_dicts) < MaxExamples
    /\ \E g \in EvalGraphs : \E tree \in EvalTrees :
        LET oov == prepare_ext_vocab(g, deepcopy(BaseVocab).obj)
            vocab == IF eval_use_copy THEN oov ELSE BaseVocab
        IN  \E c \in 0 .. Len(vocab) - 1 :
              /\ eval_oov_dicts' = Append(eval_oov_dicts, oov)
              /\ eval_vocab' = vocab
              /\ eval_reference_list' =
                    Append(eval_reference_list,
                           get_symbol_idx_for_list(vocab, tree))
              /\ eval_candidate_list' = Append(eval_candidate_list, <<c>>)
    /\ UNCHANGED <<eval_use_copy, scored_with, test_acc, eval_pc, eval_err>>

\* lines 505-508: the loader is exhausted
EvalScore ==
    /\ eval_pc = "loop"
    /\ IF eval_oov_dicts = <<>>
       \* line 506: eval_vocab was never assigned
       THEN /\ eval_pc' = "error"
            /\ eval_err' = "UnboundLocalError"
            /\ UNCHANGED <<scored_with, test_acc>>
       ELSE LET r == compute_tree_accuracy(eval_candidate_list,
                                           eval_reference_list,
                                           as_form_manager(eval_vocab))
            IN  /\ scored_with' = score_forms(eval_candidate_list,
                                              eval_reference_list,
                                              eval_vocab)
                /\ test_acc' = r.ret
                /\ eval_err' = r.err
                /\ eval_pc' = IF r.err = "none" THEN "returned" ELSE "error"
    /\ UNCHANGED <<eval_use_copy, eval_oov_dicts, eval_reference_list,
                   eval_candidate_list, eval_vocab>>

(***************************************************************************)
(* Jobs.train and Jobs.train_epoch.  train_pc names the statement that     *)
(* runs next: "epoch" and "batch" are the headers of the two loops.        *)
(***************************************************************************)
TrainIdle ==
    /\ max_epochs = 0
    /\ num_batch = 0
    /\ train_use_copy = FALSE
    /\ test_empty = FALSE
    /\ epoch = 0
    /\ step = 0
    /\ train_pc = "epoch"
    /\ ops = <<>>
    /\ handled = <<>>
    /\ passes = 0
    /\ train_err = "none"

\* the statements of the loop body with the optimizer step moved before
\* the clipping
next_pc_step_before_clip(pc, use_copy) ==
    CASE pc = "zero_grad" -> IF use_copy THEN "prepare" ELSE "forward"
      [] pc = "prepare" -> "forward"
      [] pc = "forward" -> "backward"
      [] pc = "backward" -> "opt_step"
      [] pc = "opt_step" -> "clip"
      [] OTHER -> "batch"

\* lines 368-394: the statement that follows pc in the loop body
next_pc(pc, use_copy) ==
    CASE pc = "zero_grad" -> IF use_copy THEN "prepare" ELSE "forward"
      [] pc = "prepare" -> "forward"
      [] pc = "forward" -> "backward"
      [] pc = "backward" -> "clip"
      [] pc = "clip" -> "opt_step"
      [] OTHER -> "batch"

\* one statement of the loop body runs; the iteration is complete when
\* control is back at the loop header
RunStatement(pc, op) ==
    /\ train_pc = pc
    /\ train_pc' = next_pc(pc, train_use_copy)
    /\ ops' = Append(ops, op)
    /\ IF next_pc(pc, train_use_copy) = "batch"
       THEN /\ handled' = Append(handled, Append(ops, op))
            /\ step' = step + 1
       ELSE UNCHANGED <<handled, step>>
    /\ UNCHANGED <<max_epochs, num_batch, train_use_copy, test_empty, epoch,
                   passes, train_err>>

\* lines 401-403: the next epoch begins: model.train(), train_epoch(epoch)
TrainEpochBegin ==
    /\ train_pc = "epoch"
    /\ epoch < max_epochs
    /\ epoch' = epoch + 1
    /\ step' = 0
    /\ ops' = <<>>
    /\ handled' = <<>>
    /\ train_pc' = "batch"
    /\ UNCHANGED <<max_epochs, num_batch, train_use_copy, test_empty, passes,
                   train_err>>

\* lines 413-414: range(1, max_epochs + 1) is exhausted
TrainReturn ==
    /\ train_pc = "epoch"
    /\ epoch = max_epochs
    /\ train_pc' = "done"
    /\ UNCHANGED <<max_epochs, num_batch, train_use_copy, test_empty, epoch,
                   step, ops, handled, passes, train_err>>

\* lines 365-367: the loader yields the next batch
BatchBegin ==
    /\ train_pc = "batch"
    /\ step < num_batch
    /\ ops' = <<>>
    /\ train_pc' = "zero_grad"
    /\ UNCHANGED <<max_epochs, num_batch, train_use_copy, test_empty, epoch,
                   step, handled, passes, train_err>>

\* line 368
ZeroGrad == RunStatement("zero_grad", "zero_grad")

\* lines 375-383, with copy
PrepareExtVocab == RunStatement("prepare", "prepare_ext_vocab")

\* line 389
Forward == RunStatement("forward", "forward")

\* line 390
Backward == RunStatement("backward", "backward")

\* lines 391-392
ClipGrad == RunStatement("clip", "clip_grad_value_")

\* lines 393-394
OptimizerStep == RunStatement("opt_step", "optimizer.step")

\* line 395 and 403-407: the loader is exhausted; loss_to_print/num_batch
\* divides by zero for an empty loader
TrainEpochReturn ==
    /\ train_pc = "batch"
    /\ step = num_batch
    /\ IF num_batch = 0
       THEN /\ train_pc' = "error"
            /\ train_err' = "ZeroDivisionError"
            /\ UNCHANGED passes
       ELSE /\ passes' = passes + 1
            /\ train_pc' = IF epoch > 2 /\ epoch % 5 = 0 THEN "eval" ELSE "epoch"
            /\ UNCHANGED train_err
    /\ UNCHANGED <<max_epochs, num_batch, train_use_copy, test_empty, epoch,
                   step, ops, handled>>

\* lines 410-412: self.eval; it raises when the test loader is empty
\* (eval_vocab is read unassigned at line 506)
TrainEval ==
    /\ train_pc = "eval"
    /\ train_pc' = IF test_empty THEN "error" ELSE "epoch"
    /\ train_err' = IF test_empty THEN "UnboundLocalError" ELSE "none"
    /\ UNCHANGED <<max_epochs, num_batch, train_use_copy, test_empty, epoch,
                   step, ops, handled, passes>>

(***************************************************************************)
(* The specifications.                                                     *)
(***************************************************************************)
InitSame ==
    /\ SameIdle
    /\ VocabIdle
    /\ DecIdle /\ cfg = DefaultCfg
    /\ ExtractIdle
    /\ AccIdle
    /\ CiderIdle
    /\ EvalIdle
    /\ TrainIdle

NextSame ==
    \/ ReadC1 /\ UNCHANGED notSameVars
    \/ ReadC2Rearranged /\ UNCHANGED notSameVars
    \/ ReadC2Short /\ UNCHANGED notSameVars
    \/ ReadGroups /\ UNCHANGED notSameVars
    \/ CallIsAllSame /\ UNCHANGED notSameVars

SpecSame == InitSame /\ [][NextSame]_vars

InitVocab ==
    /\ SameIdle
    /\ VocabIdle
    /\ DecIdle /\ cfg = DefaultCfg
    /\ ExtractIdle
    /\ AccIdle
    /\ CiderIdle
    /\ EvalIdle
    /\ TrainIdle

NextVocab ==
    \/ PrepareBegin /\ UNCHANGED notVocabVars
    \/ PrepareNode /\ UNCHANGED notVocabVars
    \/ PrepareReturn /\ UNCHANGED notVocabVars

SpecVocab == InitVocab /\ [][NextVocab]_vars

InitDec ==
    /\ SameIdle
    /\ VocabIdle
    /\ DecIdle /\ cfg \in Configs
    /\ ExtractIdle
    /\ AccIdle
    /\ CiderIdle
    /\ EvalIdle
    /\ TrainIdle

NextDec ==
    \/ Construct /\ UNCHANGED notDecVars
    \/ ForwardBegin /\ UNCHANGED notDecVars
    \/ DecodeStep /\ UNCHANGED notDecVars
    \/ ForwardReturn /\ UNCHANGED notDecVars

SpecDec == InitDec /\ [][NextDec]_vars

InitExtract ==
    /\ SameIdle
    /\ VocabIdle
    /\ DecIdle /\ cfg = DefaultCfg
    /\ ExtractIdle
    /\ AccIdle
    /\ CiderIdle
    /\ EvalIdle
    /\ TrainIdle

NextExtract ==
    \/ AddGraph /\ UNCHANGED notExtractVars
    \/ AddNode /\ UNCHANGED notExtractVars
    \/ ExtractParams /\ UNCHANGED notExtractVars

SpecExtract == InitExtract /\ [][NextExtract]_vars

InitAcc ==
    /\ SameIdle
    /\ VocabIdle
    /\ DecIdle /\ cfg = DefaultCfg
    /\ ExtractIdle
    /\ AccIdle
    /\ CiderIdle
    /\ EvalIdle
    /\ TrainIdle

NextAcc ==
    \/ ReadCandidate /\ UNCHANGED notAccVars
    \/ ReadReference /\ UNCHANGED notAccVars
    \/ ComputeTreeAccuracy /\ UNCHANGED notAccVars

SpecAcc == InitAcc /\ [][NextAcc]_vars

InitCider ==
    /\ SameIdle
    /\ VocabIdle
    /\ DecIdle /\ cfg = DefaultCfg
    /\ ExtractIdle
    /\ AccIdle
    /\ CiderIdle
    /\ EvalIdle
    /\ TrainIdle

NextCider ==
    \/ ReadGroundTruth /\ UNCHANGED notCiderVars
    \/ ReadPredict /\ UNCHANGED notCiderVars
    \/ CalculateScores /\ UNCHANGED notCiderVars

SpecCider == InitCider /\ [][NextCider]_vars

InitEval ==
    /\ SameIdle
    /\ VocabIdle
    /\ DecIdle /\ cfg = DefaultCfg
    /\ ExtractIdle
    /\ AccIdle
    /\ CiderIdle
    /\ eval_use_copy \in BOOLEAN
    /\ eval_oov_dicts = <<>>
    /\ eval_reference_list = <<>>
    /\ eval_candidate_list = <<>>
    /\ eval_vocab = NoVocab
    /\ scored_with = <<>>
    /\ test_acc = <<>>
    /\ eval_pc = "loop"
    /\ eval_err = "none"
    /\ TrainIdle

NextEval ==
    \/ EvalExample /\ UNCHANGED notEvalVars
    \/ EvalScore /\ UNCHANGED notEvalVars

SpecEval == InitEval /\ [][NextEval]_vars

InitTrain ==
    /\ SameIdle
    /\ VocabIdle
    /\ DecIdle /\ cfg = DefaultCfg
    /\ ExtractIdle
    /\ AccIdle
    /\ CiderIdle
    /\ EvalIdle
    /\ max_epochs \in 0 .. MaxEpochs
    /\ num_batch \in 0 .. MaxBatches
    /\ train_use_copy \in BOOLEAN
    /\ test_empty \in BOOLEAN
    /\ epoch = 0
    /\ step = 0
    /\ train_pc = "epoch"
    /\ ops = <<>>
    /\ handled = <<>>
    /\ passes = 0
    /\ train_err = "none"

NextTrain ==
    \/ TrainEpochBegin /\ UNCHANGED notTrainVars
    \/ TrainReturn /\ UNCHANGED notTrainVars
    \/ BatchBegin /\ UNCHANGED notTrainVars
    \/ ZeroGrad /\ UNCHANGED notTrainVars
    \/ PrepareExtVocab /\ UNCHANGED notTrainVars
    \/ Forward /\ UNCHANGED notTrainVars
    \/ Backward /\ UNCHANGED notTrainVars
    \/ ClipGrad /\ UNCHANGED notTrainVars
    \/ OptimizerStep /\ UNCHANGED notTrainVars
    \/ TrainEpochReturn /\ UNCHANGED notTrainVars
    \/ TrainEval /\ UNCHANGED notTrainVars

SpecTrain == InitTrain /\ [][NextTrain]_vars

(***************************************************************************)
(* What the claims call the top-level segments of a symbol string: the     *)
(* pieces between the commas that have as many "(" as ")" on each side.    *)
(***************************************************************************)
IsTopLevelComma(t, i) ==
    /\ t[i] = ","
    /\ Cardinality({k \in 1 .. i - 1 : t[k] = "("})
         = Cardinality({k \in 1 .. i - 1 : t[k] = ")"})
    /\ Cardinality({k \in i + 1 .. Len(t) : t[k] = "("})
         = Cardinality({k \in i + 1 .. Len(t) : t[k] = ")"})

TopCommas(t) == {i \in DOMAIN t : IsTopLevelComma(t, i)}

\* position of the n-th top-level comma; 0 before the first, Len+1 after
\* the last
NthComma(t, n) ==
    IF n = 0 THEN 0
    ELSE IF n > Cardinality(TopCommas(t)) THEN Len(t) + 1
    ELSE CHOOSE i \in TopCommas(t) :
            Cardinality({j \in TopCommas(t) : j < i}) = n - 1

TopSegments(t) ==
    [n \in 1 .. Cardinality(TopCommas(t)) + 1 |->
        SubSeq(t, NthComma(t, n - 1) + 1, NthComma(t, n) - 1)]

\* the segments of t are those of s in another order, multiplicities kept
IsReordering(s, t) ==
    LET a == TopSegments(s)
        b == TopSegments(t)
    IN  /\ Len(a) = Len(b)
        /\ \A k \in DOMAIN a :
              Cardinality({j \in DOMAIN a : a[j] = a[k]})
                = Cardinality({j \in DOMAIN b : b[j] = a[k]})

d1 == symbol_string(c1, idx2symbol)
d2 == symbol_string(c2, idx2symbol)

\* C1: is_all_same returns True whenever c1 and c2 are the same index
\* sequence and whenever their symbol strings differ only by the order of
\* their top-level comma-separated segments.
C1_SameOrReorderedIsTrue ==
    (same_pc = "returned" /\ (c1 = c2 \/ IsReordering(d1, d2)))
        => same_ret = TRUE

\* a reordered, non-identical pair that also holds a nested comma has been
\* judged equal
C1_Witness ==
    /\ same_pc = "returned"
    /\ c1 # c2
    /\ IsReordering(d1, d2)
    /\ \E i \in DOMAIN d1 : d1[i] = "," /\ ~IsTopLevelComma(d1, i)
    /\ same_ret = TRUE

\* C2: is_all_same returns True only if c1 and c2 are the same index
\* sequence or the top-level segments of c2 are a permutation (same
\* multiplicities, hence same number) of those of c1.
C2_TrueOnlyIfPermutation ==
    (same_pc = "returned" /\ same_ret = TRUE)
        => (c1 = c2 \/ IsReordering(d1, d2))

(***************************************************************************)
(* Jobs.prepare_ext_vocab                                                  *)
(***************************************************************************)
Qualifies(n) == n.type \in {"none", "0"}

AddedBy(v) == Symbols(v) \ Symbols(BaseVocab)

\* C7 (as stated): the source vocabulary is never modified, and a symbol
\* added for one batch is absent from the dictionary returned for the next.
C7_AddedSymbolAbsentFromNext ==
    /\ src_vocab = BaseVocab
    /\ (vocab_pc = "returned" /\ prev_oov_dict # NoVocab)
          => \A s \in AddedBy(prev_oov_dict) : s \notin Symbols(oov_dict)

\* C7 (amended): the source vocabulary is never modified, every call starts
\* from a copy equal to it, and a symbol added for one batch is in the
\* dictionary returned for the next one only if that batch itself carries
\* the symbol on a node whose type is absent or 0.
C7_FreshCopyEachCall ==
    /\ src_vocab = BaseVocab
    /\ (vocab_pc = "loop" /\ node_attributes = <<>>) => oov_dict = BaseVocab
    /\ (vocab_pc = "returned" /\ prev_oov_dict # NoVocab)
          => \A s \in AddedBy(prev_oov_dict) :
                s \in Symbols(oov_dict)
                   => \E k \in DOMAIN node_attributes :
                         /\ node_attributes[k].token = s
                         /\ Qualifies(node_attributes[k])

\* the call before added "x", this call added another symbol and returned
\* a dictionary without "x"
C7_Witness ==
    /\ vocab_pc = "returned"
    /\ "x" \in AddedBy(prev_oov_dict)
    /\ AddedBy(oov_dict) = {"y"}
    /\ src_vocab = BaseVocab

unk_idx == get_symbol_idx(src_vocab, unk_token)

\* C8: one id per node, in node order: an in-vocabulary token keeps its
\* source-vocabulary id; an out-of-vocabulary token gets the unknown id
\* until a node of absent or 0 type carries it, and from that node on one
\* and the same id that is not the unknown id.
C8_OneIdPerNode ==
    vocab_pc \in {"loop", "returned"} =>
        /\ Len(token_matrix) = Len(node_attributes)
        /\ \A k \in DOMAIN node_attributes :
             LET tok == node_attributes[k].token
                 adders == {j \in 1 .. k :
                              /\ node_attributes[j].token = tok
                              /\ Qualifies(node_attributes[j])}
             IN  IF tok \in Symbols(src_vocab)
                 THEN token_matrix[k] = symbol2idx(src_vocab, tok)
                 ELSE IF adders # {}
                      THEN /\ token_matrix[k] # unk_idx
                           /\ \A j \in adders : token_matrix[j] = token_matrix[k]
                      ELSE token_matrix[k] = unk_idx

\* one out-of-vocabulary token on a node of type 1 (unknown id), then on a
\* node of type 0 (new id), then on a node of type 1 again (same new id)
C8_Witness ==
    /\ vocab_pc = "returned"
    /\ Len(node_attributes) = 3
    /\ \A k \in 1 .. 3 : node_attributes[k].token = "x"
    /\ node_attributes[1].type = "1"
    /\ node_attributes[2].type = "0"
    /\ node_attributes[3].type = "1"
    /\ token_matrix[1] = unk_idx
    /\ token_matrix[2] # unk_idx
    /\ token_matrix[3] = token_matrix[2]

(***************************************************************************)
(* StdRNNDecoder                                                           *)
(***************************************************************************)
RECURSIVE SetSum(_, _)
\* the sum of f[x] over x in S
SetSum(S, f) ==
    IF S = {} THEN 0
    ELSE LET x == CHOOSE y \in S : TRUE
         IN  f[x] + SetSum(S \ {x}, f)

SetMax(S) == CHOOSE x \in S : \A y \in S : y <= x

Started == dec_pc \in {"loop", "done", "error"} /\ decoder_input # <<>>

\* C3: with coverage on, the coverage vector of step 0 is None and the one
\* of step k >= 1 is the element-wise sum ('sum') or maximum ('max') of the
\* averaged attention scores of steps 0 .. k-1; coverage_vectors holds it
\* at index k.  The score entry of a step is the mean over its attention
\* modules.
C3_CoverageVector ==
    (Started /\ cfg.use_coverage /\ cfg.coverage_strategy \in {"sum", "max"})
    => /\ Len(coverage_vectors) = Len(enc_attn_weights_average)
       /\ enc_attn_weights_average # <<>>
            => \A b \in Batch(cfg) : \A j \in SrcPos :
                  Len(score_results)
                      * enc_attn_weights_average[Len(enc_attn_weights_average)][b][j]
                    = SetSum(DOMAIN score_results,
                             [h \in DOMAIN score_results |-> score_results[h][b][j]])
       /\ \A k \in DOMAIN coverage_vectors :
            IF k = 1
            THEN coverage_vectors[k].none
            ELSE /\ ~coverage_vectors[k].none
                 /\ \A b \in Batch(cfg) : \A j \in SrcPos :
                      coverage_vectors[k].vec[b][j] =
                        IF cfg.coverage_strategy = "sum"
                        THEN SetSum(1 .. k - 1,
                                [m \in 1 .. k - 1 |->
                                    enc_attn_weights_average[m][b][j]])
                        ELSE SetMax({enc_attn_weights_average[m][b][j] :
                                        m \in 1 .. k - 1})

\* three steps under 'max' whose third coverage vector is neither the sum
\* of the two earlier scores nor the newer of them
C3_Witness ==
    /\ dec_pc = "done"
    /\ cfg.use_coverage
    /\ cfg.coverage_strategy = "max"
    /\ Len(coverage_vectors) = 3
    /\ coverage_vectors[1].none
    /\ coverage_vectors[3].vec[1] # enc_attn_weights_average[2][1]
    /\ coverage_vectors[3].vec[1][1] #
          enc_attn_weights_average[1][1][1] + enc_attn_weights_average[2][1][1]

IsArgmax(dist, v) ==
    /\ \A w \in VocabIds : dist[w] <= dist[v]
    /\ \A w \in VocabIds : w < v => dist[w] < dist[v]

\* the input of the step after step k (1-based): embedded if that step has
\* begun, waiting in decoder_input otherwise
InputAfter(k) == IF k < Len(embed) THEN embed[k + 1] ELSE decoder_input

\* C4: step 0 is fed SOS for every batch element; the step after step k is
\* fed column k of tgt_seq for the whole batch if tgt_seq is given and the
\* one draw of step k is below teacher_forcing_rate, and the argmax of the
\* output of step k otherwise; without tgt_seq nothing is drawn and no
\* target token is fed.
C4_TeacherForcing ==
    Started
    => /\ InputAfter(0) = [b \in Batch(cfg) |-> SOS]
       /\ Len(draws) = Len(outputs)
       /\ \A k \in DOMAIN outputs :
            IF cfg.tgt_seq.given /\ draws[k] >= 0
                 /\ draws[k] < cfg.teacher_forcing_rate
            THEN InputAfter(k) = cfg.tgt_seq.cols[k]
            ELSE \A b \in Batch(cfg) : IsArgmax(outputs[k][b], InputAfter(k)[b])
       /\ ~cfg.tgt_seq.given => \A k \in DOMAIN draws : draws[k] = -1

\* a batch of two: the target column was fed after the first step although
\* it is not the prediction, the prediction after the second
C4_Witness ==
    /\ dec_pc = "done"
    /\ cfg.batch_size = 2
    /\ cfg.tgt_seq.given
    /\ Len(outputs) = 2
    /\ draws[1] < cfg.teacher_forcing_rate
    /\ draws[2] >= cfg.teacher_forcing_rate
    /\ embed[2] = cfg.tgt_seq.cols[1]
    /\ \E b \in Batch(cfg) : ~IsArgmax(outputs[1][b], embed[2][b])
    /\ decoder_input # cfg.tgt_seq.cols[2]
    /\ decoder_input[1] # decoder_input[2]

LastStep == Len(outputs)

\* C5: with copy on, the output of a step is, for every vocabulary id v,
\* (1 - p_ptr) * gen[v] + p_ptr * (sum of the attention scores of the
\* source positions whose src_seq id is v).
C5_CopyMixing ==
    (Started /\ cfg.use_copy /\ outputs # <<>>)
    => \A b \in Batch(cfg) : \A v \in VocabIds :
          outputs[LastStep][b][v] =
              (One - prob_ptr[b]) * gen_output[b][v]
            + prob_ptr[b] *
                SetSum({j \in SrcPos : cfg.src_seq[b][j] = v},
                       enc_attn_weights_average[LastStep][b])

\* both source positions hold the same id and both have a score above zero
C5_Witness ==
    /\ dec_pc = "done"
    /\ cfg.use_copy
    /\ cfg.src_seq[1][1] = cfg.src_seq[1][2]
    /\ \A j \in SrcPos : enc_attn_weights_average[LastStep][1][j] > 0
    /\ outputs[LastStep][1][cfg.src_seq[1][1]] =
          (One - prob_ptr[1]) * gen_output[1][cfg.src_seq[1][1]]
              + prob_ptr[1] * One

\* C6: with copy on, a generation distribution that sums to 1, attention
\* scores that sum to 1 and in-range src_seq ids, the output of every step
\* sums to 1.
C6_MixedSumsToOne ==
    (Started /\ cfg.use_copy
       /\ \A g \in GenChoices : SetSum(VocabIds, g) = One
       /\ \A b \in Batch(cfg) : \A j \in SrcPos : cfg.src_seq[b][j] \in VocabIds)
    => \A k \in DOMAIN outputs : \A b \in Batch(cfg) :
          SetSum(SrcPos, enc_attn_weights_average[k][b]) = One
             => SetSum(VocabIds, outputs[k][b]) = One * One

\* a finished pass that copied from two different ids with two different
\* pointer probabilities
C6_Witness ==
    /\ dec_pc = "done"
    /\ cfg.use_copy
    /\ cfg.src_seq[1] = <<1, 0>>
    /\ Len(outputs) >= 2
    /\ outputs[1] # outputs[2]

MinOf(a, b) == CHOOSE m \in {a, b} : m <= a /\ m <= b

ExpectedSteps ==
    IF cfg.tgt_seq.given
    THEN MinOf(Len(cfg.tgt_seq.cols), cfg.max_decoder_step)
    ELSE cfg.max_decoder_step

\* C9: the loop runs exactly min(tgt_seq length, max_decoder_step) steps
\* with tgt_seq and max_decoder_step steps without, whatever is generated:
\* it never runs more, before that number a further step is always taken,
\* and a pass that returns holds one distribution per step and, with
\* attention, one attention score entry per step.
C9_StepCount ==
    Started
    => /\ target_len = ExpectedSteps
       /\ dec_i <= ExpectedSteps
       /\ Len(outputs) = dec_i
       /\ (dec_pc = "loop" /\ dec_i < ExpectedSteps) => ENABLED DecodeStep
       /\ (dec_pc = "loop" /\ dec_i < ExpectedSteps) => ~ENABLED ForwardReturn
       /\ dec_pc = "done"
            => /\ dec_i = ExpectedSteps
               /\ Len(outputs) = ExpectedSteps
               /\ cfg.use_attention
                    => Len(enc_attn_weights_average) = ExpectedSteps

\* a pass that stopped at max_decoder_step although tgt_seq is longer
C9_Witness ==
    /\ dec_pc = "done"
    /\ cfg.tgt_seq.given
    /\ Len(cfg.tgt_seq.cols) > cfg.max_decoder_step
    /\ dec_i = cfg.max_decoder_step
    /\ Len(outputs) = cfg.max_decoder_step

\* C10: use_coverage=True with use_attention=False fails with a ValueError
\* at construction, whatever the other options, once the earlier check (the
\* rnn_type) has passed.
C10_CoverageNeedsAttention ==
    (dec_pc # "new" /\ cfg.use_coverage /\ ~cfg.use_attention
       /\ cfg.rnn_type \in {"LSTM", "GRU"})
    => (dec_pc = "error" /\ dec_err = "ValueError")

C10_Witness ==
    /\ dec_pc = "error"
    /\ dec_err = "ValueError"
    /\ cfg.use_coverage
    /\ ~cfg.use_attention
    /\ cfg.use_copy
    /\ cfg.attention_type = "other"
    /\ cfg.rnn_type = "GRU"

(***************************************************************************)
(* Construction and decoding errors.                                       *)
(***************************************************************************)
\* C11: a decoder with use_copy=True and use_attention=False is rejected
\* with an error at construction: it never comes out of __init__ and no
\* forward pass is ever begun on it.
C11_CopyNeedsAttention ==
    (dec_pc # "new" /\ cfg.use_copy /\ ~cfg.use_attention)
    => (dec_pc = "error" /\ decoder_input = <<>>)

\* C12: a coverage_strategy other than 'sum' and 'max' is reported as a
\* ValueError when the coverage vector is computed, that is at the first
\* step that has earlier attention weights to cover.
C12_UnrecognizedCoverFunc ==
    (/\ dec_pc = "error"
     /\ cfg.use_coverage
     /\ cfg.use_attention
     /\ cfg.coverage_strategy \notin {"sum", "max"}
     /\ enc_attn_weights_average # <<>>)
    => dec_err = "ValueError"

\* C13: with an rnn_type other than 'LSTM' and 'GRU' the constructor fails
\* with NotImplementedError and has built nothing by then: no attention
\* module, no coverage function, no pointer layer (and not the rnn); with
\* 'LSTM' or 'GRU' the rnn is built whatever happens later.
C13_RnnTypeChecked ==
    /\ (dec_pc # "new" /\ cfg.rnn_type \notin {"LSTM", "GRU"})
       => (dec_pc = "error" /\ dec_err = "NotImplementedError" /\ built = {})
    /\ (dec_pc # "new" /\ cfg.rnn_type \in {"LSTM", "GRU"})
       => "rnn" \in built

\* an unsupported rnn_type together with options that would fail the
\* attention builder's assertion and ask for coverage and copy
C13_Witness ==
    /\ dec_pc = "error"
    /\ dec_err = "NotImplementedError"
    /\ cfg.rnn_type = "RNN"
    /\ cfg.use_attention
    /\ cfg.attention_type = "sep_diff_encoder_type"
    /\ cfg.rnn_emb = "none"
    /\ cfg.use_coverage
    /\ cfg.use_copy
    /\ built = {}

HasOutOfRangeSrcId ==
    \E b \in Batch(cfg) : \E j \in SrcPos : cfg.src_seq[b][j] >= vocab_size

\* C19: every output distribution has exactly the vocab_size entries
\* 0 .. vocab_size - 1, with copy and without; with copy and a src_seq id
\* of vocab_size or more no distribution is ever produced: the first step
\* is the only step taken and it fails (the scatter index is out of range).
C19_OutOfRangeSrcId ==
    /\ \A k \in DOMAIN outputs : \A b \in Batch(cfg) :
          DOMAIN outputs[k][b] = 0 .. vocab_size - 1
    /\ (cfg.use_copy /\ HasOutOfRangeSrcId)
       => /\ outputs = <<>>
          /\ dec_i = 0
          /\ dec_pc # "done"
          /\ (dec_pc = "loop") => (ENABLED DecodeStep /\ ~ENABLED ForwardReturn)
          /\ (dec_pc = "error" /\ decoder_input # <<>>)
               => dec_err = "RuntimeError"

\* the first step of a copying decoder with attention failed on a source
\* id equal to vocab_size
C19_Witness ==
    /\ dec_pc = "error"
    /\ dec_err = "RuntimeError"
    /\ cfg.use_copy
    /\ cfg.use_attention
    /\ cfg.src_seq[1] = <<0, vocab_size>>
    /\ target_len > 0
    /\ decoder_input # <<>>
    /\ outputs = <<>>

(***************************************************************************)
(* Commas nested inside parentheses.                                       *)
(***************************************************************************)
\* s and t are equal except that the two (different, plain) arguments of
\* one group "( x , y )" are exchanged
SwapsOneNestedPair(s, t) ==
    /\ Len(s) = Len(t)
    /\ \E i \in DOMAIN s :
        /\ i + 4 <= Len(s)
        /\ s[i] = "(" /\ s[i + 2] = "," /\ s[i + 4] = ")"
        /\ {s[i + 1], s[i + 3]} \cap {"(", ")", ","} = {}
        /\ s[i + 1] # s[i + 3]
        /\ t[i + 1] = s[i + 3] /\ t[i + 3] = s[i + 1]
        /\ \A k \in DOMAIN s : k \notin {i + 1, i + 3} => t[k] = s[k]

\* C20: is_all_same returns False for two different sequences that differ
\* only by the order of the comma-separated arguments nested inside a
\* parenthesised group, as '( a , b )' against '( b , a )'.
C20_NestedOrderIsFalse ==
    (same_pc = "returned" /\ SwapsOneNestedPair(d1, d2))
    => same_ret = FALSE

(***************************************************************************)
(* _extract_params.                                                        *)
(***************************************************************************)
node_count(i) == Len(graph_list[i])

LargestNodeCount == SetMax({node_count(i) : i \in DOMAIN graph_list})

\* C14: every graph of the batch is padded to the largest node count with
\* zero rows below its own rows, and the mask is -1 at every position at
\* or beyond the graph's node count and at every real node without a
\* 'type', and is the node's type at every real node that has one.
C14_PaddingAndMask ==
    extract_pc = "returned"
    => /\ DOMAIN params.graph_node_embedding = DOMAIN graph_list
       /\ DOMAIN params.graph_node_mask = DOMAIN graph_list
       /\ \A i \in DOMAIN graph_list :
            /\ Len(params.graph_node_embedding[i]) = LargestNodeCount
            /\ Len(params.graph_node_mask[i]) = LargestNodeCount
            /\ \A j \in 1 .. LargestNodeCount :
                 /\ j > node_count(i)
                      => /\ params.graph_node_embedding[i][j] = 0
                         /\ params.graph_node_mask[i][j] = -1
                 /\ j <= node_count(i)
                      => /\ params.graph_node_embedding[i][j]
                              = node_emb(graph_list[i])[j]
                         /\ graph_list[i][j].has_type
                              => params.graph_node_mask[i][j]
                                   = graph_list[i][j].type
                         /\ ~graph_list[i][j].has_type
                              => params.graph_node_mask[i][j] = -1

\* a batch of a one-node graph and a larger graph that holds a node
\* without a type and a node of type 0
C14_Witness ==
    /\ extract_pc = "returned"
    /\ Len(graph_list) = 2
    /\ node_count(1) = 1
    /\ node_count(2) = 2
    /\ graph_list[1][1].has_type /\ graph_list[1][1].type = 1
    /\ ~graph_list[2][1].has_type
    /\ graph_list[2][2].has_type /\ graph_list[2][2].type = 0
    /\ params.graph_node_mask = <<<<1, -1>>, <<-1, 0>>>>
    /\ params.graph_node_embedding[1][2] = 0

(***************************************************************************)
(* compute_accuracy.                                                       *)
(***************************************************************************)
ShorterLen == MinOf(Len(candidate_list), Len(reference_list))

EqualPairs ==
    {i \in 1 .. ShorterLen :
        is_all_same(candidate_list[i], reference_list[i], idx2symbol)}

\* C15: on lists of different lengths compute_tree_accuracy does not fail:
\* it pairs element i with element i for the first min(len) indices and
\* returns the number of pairs is_all_same judges equal divided by that
\* minimum, a value between 0 and 1.
C15_AccuracyOfShorterList ==
    (acc_pc # "read" /\ Len(candidate_list) # Len(reference_list))
    => /\ acc_pc = "returned"
       /\ acc_ret = <<Cardinality(EqualPairs), ShorterLen>>
       /\ 0 <= acc_ret[1] /\ acc_ret[1] <= acc_ret[2]

(***************************************************************************)
(* CIDEr.calculate_scores.                                                 *)
(***************************************************************************)
\* t is str without its leading and trailing blanks
IsStripped(str, t) ==
    /\ t = <<>> \/ (t[1] # " " /\ t[Len(t)] # " ")
    /\ \E i \in 0 .. Len(str) :
        /\ i + Len(t) <= Len(str)
        /\ \A k \in 1 .. Len(str) :
             IF k > i /\ k <= i + Len(t) THEN str[k] = t[k - i] ELSE str[k] = " "

\* C17: the scorer is called once, with ground_truth[i] paired with
\* predict[i] under the same key for every i, each as a one-element list
\* that holds the string without its leading and trailing blanks; when the
\* lists differ in length the call fails with AssertionError and the scorer
\* is never called.
C17_PairsByIndex ==
    /\ cider_pc = "returned"
       => /\ Len(ground_truth) = Len(predict)
          /\ Len(scorer_calls) = 1
          /\ DOMAIN scorer_calls[1].refs = DOMAIN ground_truth
          /\ DOMAIN scorer_calls[1].hyps = DOMAIN predict
          /\ \A i \in DOMAIN ground_truth :
               /\ Len(scorer_calls[1].refs[i]) = 1
               /\ Len(scorer_calls[1].hyps[i]) = 1
               /\ IsStripped(ground_truth[i], scorer_calls[1].refs[i][1])
               /\ IsStripped(predict[i], scorer_calls[1].hyps[i][1])
    /\ (cider_pc # "read" /\ Len(ground_truth) # Len(predict))
       => /\ cider_pc = "error"
          /\ cider_err = "AssertionError"
          /\ scorer_calls = <<>>

\* two pairs whose strings carry blanks on both sides
C17_Witness ==
    /\ cider_pc = "returned"
    /\ ground_truth = << <<" ", "a", " ", "b", " ">>, <<"a", " ">> >>
    /\ predict = << <<" ", "a">>, <<" ", "a", " ", "b", " ">> >>
    /\ scorer_calls[1].refs = << << <<"a", " ", "b">> >>, << <<"a">> >> >>
    /\ scorer_calls[1].hyps = << << <<"a">> >>, << <<"a", " ", "b">> >> >>

(***************************************************************************)
(* Jobs.eval.                                                              *)
(***************************************************************************)
\* C18: with copy enabled every candidate/reference pair is scored with
\* the OOV dictionary built for that same test example, the one that
\* indexed its reference, in every test set of more than one example.
C18_ScoredWithOwnDictionary ==
    (eval_pc = "returned" /\ eval_use_copy /\ Len(eval_oov_dicts) > 1)
    => /\ DOMAIN scored_with = DOMAIN eval_oov_dicts
       /\ \A i \in DOMAIN eval_oov_dicts : scored_with[i] = eval_oov_dicts[i]

(***************************************************************************)
(* Jobs.train.                                                             *)
(***************************************************************************)
\* the fixed order in which one batch is handled
BatchOrder ==
    IF train_use_copy
    THEN <<"zero_grad", "prepare_ext_vocab", "forward", "backward",
           "clip_grad_value_", "optimizer.step">>
    ELSE <<"zero_grad", "forward", "backward", "clip_grad_value_",
           "optimizer.step">>

Occurrences(seq, op) == {k \in DOMAIN seq : seq[k] = op}

\* C16: train returns after exactly max_epochs passes; a pass that is over
\* has handled each of the num_batch batches once, each in the order
\* zero_grad, (prepare_ext_vocab with copy,) forward, backward,
\* clip_grad_value_, optimizer.step: one optimizer step per batch, with
\* the clipping after backward and before the step.
C16_TrainOrder ==
    /\ \A i \in DOMAIN handled :
        /\ handled[i] = BatchOrder
        /\ Cardinality(Occurrences(handled[i], "optimizer.step")) = 1
        /\ \A b \in Occurrences(handled[i], "backward") :
           \A c \in Occurrences(handled[i], "clip_grad_value_") :
           \A o \in Occurrences(handled[i], "optimizer.step") :
              b < c /\ c < o
    /\ Len(ops) <= Len(BatchOrder)
    /\ ops = SubSeq(BatchOrder, 1, Len(ops))
    /\ Len(handled) = step
    /\ step <= num_batch
    /\ epoch <= max_epochs
    /\ (train_pc \in {"epoch", "eval", "done"} /\ epoch >= 1)
       => (Len(handled) = num_batch /\ passes = epoch)
    /\ train_pc = "done" => passes = max_epochs

\* training with copy over five epochs of two batches has returned (the
\* evaluation of the fifth epoch included)
C16_Witness ==
    /\ train_pc = "done"
    /\ max_epochs = 5
    /\ num_batch = 2
    /\ train_use_copy
    /\ passes = 5
    /\ handled = <<BatchOrder, BatchOrder>>

(***************************************************************************)
(* Teacher forcing at the two ends of the rate.                            *)
(***************************************************************************)
\* C21: with tgt_seq given and teacher_forcing_rate 1.0 the step after
\* step k is fed column k of tgt_seq for every k, whatever was drawn and
\* whatever was predicted; with rate 0.0 it is fed the argmax of the
\* output of step k for every k, whatever was drawn and whatever the
\* target holds.
C21_RateOneAndZero ==
    (Started /\ cfg.tgt_seq.given)
    => /\ cfg.teacher_forcing_rate = One
          => \A k \in DOMAIN outputs : InputAfter(k) = cfg.tgt_seq.cols[k]
       /\ cfg.teacher_forcing_rate = 0
          => \A k \in DOMAIN outputs : \A b \in Batch(cfg) :
                IsArgmax(outputs[k][b], InputAfter(k)[b])

\* rate 1.0 and the largest draw: the second step was fed the first target
\* column although an element's prediction was another token
C21_Witness ==
    /\ dec_pc = "done"
    /\ cfg.tgt_seq.given
    /\ cfg.teacher_forcing_rate = One
    /\ Len(outputs) = 2
    /\ \A k \in DOMAIN draws : draws[k] = SetMax(DrawChoices)
    /\ embed[2] = cfg.tgt_seq.cols[1]
    /\ \E b \in Batch(cfg) : ~IsArgmax(outputs[1][b], embed[2][b])

====
